---- MODULE Spec2Model ----
(***************************************************************************)
(* Model of the InsForge backend process.                                  *)
(*                                                                         *)
(*   Spec       the process lifecycle: initializeServer()/createApp()      *)
(*              (boot), cleanup() on SIGINT/SIGTERM, the HTTP listener,    *)
(*              the detached syncDeployment() task and requests served     *)
(*              while the process runs.                                    *)
(*   SpecProxy  functionProxyHandler, one call after another.              *)
(*   SpecTelemetry  the request logging middleware of createApp(), one     *)
(*              request after another.                                     *)
(*   SpecBootstrap  bootstrapMigrations and the database it works on.      *)
(*                                                                         *)
(* Node runs one handler at a time: a callback, or the continuation of an  *)
(* await, runs to its next await without any other callback in between.    *)
(* Positions inside such a synchronous stretch are listed in BootSyncPcs   *)
(* and CleanupSyncPcs; every event-loop action is guarded by EventLoopFree.*)
(***************************************************************************)
EXTENDS Integers, Sequences, FiniteSets, TLC

VARIABLES
    \* ---- lifecycle ----
    bootPc,       \* step of initializeServer in progress, "done" or "failed"
    started,      \* startup steps in the order they were started
    finished,     \* startup steps that completed successfully
    handle,       \* subsystem handle -> "Uninitialized" | "Ready" | "Closed"
    applied,      \* <<handle, "init"|"close", state of the handle at the call>>;
                  \* for the socket hub's init also the state of the listener
    listener,     \* "none" | "starting" (listen() called) | "bound" (accepting)
    syncState,    \* "notStarted" | "pending" | "ok" | "failed"
    syncCalls,    \* number of syncDeployment() invocations
    syncLogged,   \* the .catch handler logged a sync failure
    signals,      \* number of termination signals delivered (= cleanup runs)
    clPc,         \* cleanup run -> position
    clSig,        \* cleanup run -> signal that triggered it
    clAttempts,   \* cleanup run -> teardown actions attempted, in order
    clRaised,     \* cleanup run -> teardown actions that raised
    completed,    \* teardown actions that completed without raising
    reRun,        \* teardown actions attempted again after having completed
    unhandled,    \* an exception escaped cleanup()
    exited,       \* the process has terminated
    exitCode,     \* its exit status (meaningful when exited)
    exitCause,    \* "none" | "bootFailure" | "cleanup" | "listenError" | "syncFailure"
    failedStep,   \* the startup step that failed, "none" if none did
    lastServed,   \* the last request served: subsystem used, its state, phase
    \* ---- deployment resolver and configuration ----
    rsConfigured, \* what isSubhostingConfigured() reports now
    rsUrl,        \* what getDeploymentUrl() returns now
    envRuntime,   \* process.env.DENO_RUNTIME_URL
    \* ---- functionProxyHandler, the call in progress ----
    pxPc,         \* position in the handler
    pxCalls,      \* calls started so far
    pxSawConfigured, \* what isSubhostingConfigured() reported to this call
    pxGotUrl,     \* what getDeploymentUrl() returned to this call
    pxBase,       \* baseUrl
    pxSelections, \* number of times this call chose a base URL
    pxError,      \* the value caught or thrown out of the handler
    pxErrAt,      \* where it was raised
    pxResponses,  \* responses sent by this call, in order
    pxEscaped,    \* an exception left the handler
    pxPrevBase,   \* baseUrl chosen by the previous call (undefined if none)
    pxReq,        \* the incoming request
    pxUpstream,   \* the arguments of fetch(): url, method, headers, body
    pxUpResp,     \* the upstream response
    \* ---- the request logging middleware of createApp()
    tmPc,         \* position of the request in the middleware chain
    tmReq,        \* the request: method and path
    tmWrapped,    \* the logging middleware ran for this request
    tmSize,       \* responseSize
    tmTop,        \* the calls of res.send / res.json made by handlers
    tmCalls,      \* every entry into a wrapper, nested ones included
    tmOrig,       \* every call of originalSend / originalJson
    tmBody,       \* the body handed to the socket
    tmStatus,     \* res.statusCode
    tmThrown,     \* an exception left a wrapper
    tmFinished,   \* the response has been flushed
    tmLog,        \* the 'HTTP Request' records of this request
    \* ---- bootstrapMigrations and its database
    bsPc,         \* position of the run
    bsRuns,       \* runs of the script started so far
    bsEnvSet,     \* DATABASE_URL is set
    bsDb,         \* the committed state of the database
    bsTx,         \* the state the open transaction works on
    bsTxn,        \* "none", "open", or "failed" (aborted until ROLLBACK)
    bsConn,       \* the client's connection: "none", "up" or "down"
    bsStartDb,    \* the database as the run found it
    bsOld,        \* oldTableExists.rows[0].exists
    bsNew,        \* newTableExists.rows[0].exists
    bsMoveTried,  \* the run entered the table move
    bsMoveError,  \* the statement of the move that failed ("none" if none)
    bsRaised,     \* the error on its way to the outer catch ("none" if none)
    bsReported,   \* the errors the run logged
    bsReleases,   \* calls of client.release()
    bsPoolEnds,   \* calls of pool.end()
    bsExitCode,   \* process.exitCode / the status of process.exit
    bsAfterOk     \* the database as the first successful run left it

lifeVars == <<bootPc, started, finished, handle, applied, listener, syncState,
              syncCalls, syncLogged, signals, clPc, clSig, clAttempts, clRaised,
              completed, reRun, unhandled, exited, exitCode, exitCause, failedStep,
              lastServed>>

resolverVars == <<rsConfigured, rsUrl, envRuntime>>

pxVars == <<pxPc, pxCalls, pxSawConfigured, pxGotUrl, pxBase, pxSelections, pxError,
            pxErrAt, pxResponses, pxEscaped, pxPrevBase, pxReq, pxUpstream, pxUpResp>>

tmVars == <<tmPc, tmReq, tmWrapped, tmSize, tmTop, tmCalls, tmOrig, tmBody, tmStatus,
            tmThrown, tmFinished, tmLog>>

bsVars == <<bsPc, bsRuns, bsEnvSet, bsDb, bsTx, bsTxn, bsConn, bsStartDb, bsOld, bsNew,
            bsMoveTried, bsMoveError, bsRaised, bsReported, bsReleases, bsPoolEnds,
            bsExitCode, bsAfterOk>>

vars == <<lifeVars, resolverVars, pxVars, tmVars, bsVars>>

\* ---------------------------------------------------------------- bounds
MaxSignals == 2
MaxCalls == 2
MaxRuns == 2

\* ------------------------------------------------------------- lifecycle
States == {"Uninitialized", "Ready", "Closed"}

\* The handles the boot sequence initializes.
BootHandles == {"db", "storage", "logs", "socket", "realtime"}

\* The handles cleanup() tears down without the boot having initialized them.
ImportHandles == {"oauth", "timer"}

Handles == BootHandles \cup ImportHandles

\* The steps awaited by createApp()/initializeServer().
AsyncSteps == {"db", "storage", "logs", "parser", "seed", "realtime"}

\* Startup order of createApp() followed by initializeServer().
BootOrder_RealtimeFirst ==
    <<"realtime", "storage", "logs", "parser", "seed", "listen", "socket", "db", "sync">>

BootOrder ==
    <<"db", "storage", "logs", "parser", "seed", "listen", "socket", "realtime", "sync">>

\* Teardown order of cleanup().
TeardownOrder == <<"realtime", "socket", "oauth", "timer">>

Signals == {"SIGINT", "SIGTERM"}

Runs == 1..MaxSignals

IndexOf(seq, x) == CHOOSE i \in 1..Len(seq) : seq[i] = x

\* The step that follows s in the boot, "done" after the last.
Succ(s) ==
    IF IndexOf(BootOrder, s) = Len(BootOrder) THEN "done"
    ELSE BootOrder[IndexOf(BootOrder, s) + 1]

\* SubsystemHandle transitions: Uninitialized -> Ready -> Closed.
AfterInit(st) == IF st = "Uninitialized" THEN "Ready" ELSE st

AfterClose(st) == IF st = "Ready" THEN "Closed" ELSE st

\* Positions of initializeServer inside a synchronous stretch.
BootSyncPcs == {"listen", "socket", "sync"}

\* Positions of cleanup() after its only await: lines 294-320 run without
\* yielding to the event loop.
CleanupSyncPcs_Yielding == {}

CleanupSyncPcs == {"socket", "oauth", "timer", "exit"}

InSync ==
    \/ bootPc \in BootSyncPcs
    \/ \E r \in Runs : clPc[r] \in CleanupSyncPcs

EventLoopFree == ~exited /\ ~InSync

\* Does an exception raised by a teardown action leave cleanup()?  Each
\* action sits in its own try/catch that only logs.
Escapes_NoCatch(raised) == raised

Escapes(raised) == FALSE

\* Does a rejection of syncDeployment() reach the catch block of
\* initializeServer (and process.exit(1))?  The promise is not awaited and
\* carries its own .catch that only logs.
SyncFailureExits_Awaited == TRUE

SyncFailureExits == FALSE

\* The call of an awaited step: it is recorded as started, and an
\* initialize() is applied to its handle.
StartedWith(st, s) == IF s \in AsyncSteps THEN Append(st, s) ELSE st

AppliedWith(ap, s, h) ==
    IF s \in AsyncSteps \cap BootHandles THEN ap \cup {<<s, "init", h[s]>>} ELSE ap

NoServed == [uses |-> "none", st |-> "none", shutting |-> FALSE, sync |-> "none"]

LifeInit ==
    /\ bootPc = BootOrder[1]
    /\ started = StartedWith(<<>>, BootOrder[1])
    /\ finished = {}
    /\ handle = [h \in Handles |-> IF h \in ImportHandles THEN "Ready" ELSE "Uninitialized"]
    /\ applied = AppliedWith({}, BootOrder[1],
                             [h \in Handles |-> "Uninitialized"])
    /\ listener = "none"
    /\ syncState = "notStarted"
    /\ syncCalls = 0
    /\ syncLogged = FALSE
    /\ signals = 0
    /\ clPc = [r \in Runs |-> "idle"]
    /\ clSig = [r \in Runs |-> "none"]
    /\ clAttempts = [r \in Runs |-> <<>>]
    /\ clRaised = [r \in Runs |-> {}]
    /\ completed = {}
    /\ reRun = {}
    /\ unhandled = FALSE
    /\ exited = FALSE
    /\ exitCode = 0
    /\ exitCause = "none"
    /\ failedStep = "none"
    /\ lastServed = NoServed

cleanupVars == <<signals, clPc, clSig, clAttempts, clRaised, completed, reRun, unhandled>>
syncVars == <<syncState, syncCalls, syncLogged>>
exitVars == <<exited, exitCode, exitCause, failedStep>>

\* catch block of initializeServer: log, process.exit(1).
BootFailure ==
    /\ failedStep' = bootPc
    /\ bootPc' = "failed"
    /\ exited' = TRUE
    /\ exitCode' = 1
    /\ exitCause' = "bootFailure"

\* An awaited startup step settles: dbManager.initialize(),
\* storageService.initialize(), logService.initialize(), initSqlParser(),
\* seedBackend(), realtimeManager.initialize().  On success the code runs on
\* to the call of the next step; on failure to the catch block.
AwaitSettles(ok) ==
    /\ EventLoopFree
    /\ bootPc \in AsyncSteps
    /\ IF ok
       THEN /\ finished' = finished \cup {bootPc}
            /\ handle' = IF bootPc \in BootHandles
                         THEN [handle EXCEPT ![bootPc] = AfterInit(@)]
                         ELSE handle
            /\ bootPc' = Succ(bootPc)
            /\ started' = StartedWith(started, Succ(bootPc))
            /\ applied' = AppliedWith(applied, Succ(bootPc), handle')
            /\ UNCHANGED exitVars
       ELSE /\ BootFailure
            /\ UNCHANGED <<finished, handle, started, applied>>
    /\ UNCHANGED <<listener, syncVars, cleanupVars, lastServed>>

\* app.listen(PORT, cb): returns at once; the port is bound later, and cb
\* runs then.  A synchronous throw (bad port) goes to the catch block.
Listen(ok) ==
    /\ ~exited
    /\ bootPc = "listen"
    /\ IF ok
       THEN /\ finished' = finished \cup {"listen"}
            /\ listener' = "starting"
            /\ bootPc' = Succ("listen")
            /\ started' = StartedWith(Append(started, "listen"), Succ("listen"))
            /\ applied' = AppliedWith(applied, Succ("listen"), handle)
            /\ UNCHANGED exitVars
       ELSE /\ BootFailure
            /\ started' = Append(started, "listen")
            /\ UNCHANGED <<finished, listener, applied>>
    /\ UNCHANGED <<handle, syncVars, cleanupVars, lastServed>>

\* socketService.initialize(server) is applied to the server in the state
\* the listener has at the call.
SocketInit == <<"socket", "init", handle["socket"], listener>>

\* socketService.initialize(server): synchronous, not awaited.
SocketAttach(ok) ==
    /\ ~exited
    /\ bootPc = "socket"
    /\ IF ok
       THEN /\ finished' = finished \cup {"socket"}
            /\ handle' = [handle EXCEPT !["socket"] = AfterInit(@)]
            /\ bootPc' = Succ("socket")
            /\ started' = StartedWith(Append(started, "socket"), Succ("socket"))
            /\ applied' = AppliedWith(applied \cup {SocketInit},
                                      Succ("socket"), handle')
            /\ UNCHANGED exitVars
       ELSE /\ BootFailure
            /\ started' = Append(started, "socket")
            /\ applied' = applied \cup {SocketInit}
            /\ UNCHANGED <<finished, handle>>
    /\ UNCHANGED <<listener, syncVars, cleanupVars, lastServed>>

\* functionService.syncDeployment().catch(log): the promise is created and
\* left; initializeServer returns.
FireSync ==
    /\ ~exited
    /\ bootPc = "sync"
    /\ syncCalls' = syncCalls + 1
    /\ syncState' = "pending"
    /\ finished' = finished \cup {"sync"}
    /\ bootPc' = Succ("sync")
    /\ started' = StartedWith(Append(started, "sync"), Succ("sync"))
    /\ applied' = AppliedWith(applied, Succ("sync"), handle)
    /\ UNCHANGED <<handle, listener, syncLogged, cleanupVars, exitVars, lastServed>>

\* The syncDeployment() promise settles; a rejection runs the .catch handler.
SyncSettles(ok) ==
    /\ EventLoopFree
    /\ syncState = "pending"
    /\ syncState' = IF ok THEN "ok" ELSE "failed"
    /\ syncLogged' = ~ok
    /\ IF ~ok /\ SyncFailureExits
       THEN /\ exited' = TRUE
            /\ exitCode' = 1
            /\ exitCause' = "syncFailure"
            /\ failedStep' = "sync"
       ELSE UNCHANGED exitVars
    /\ UNCHANGED <<bootPc, started, finished, handle, applied, listener, syncCalls,
                   cleanupVars, lastServed>>

\* The server finishes binding the port ('listening'): it accepts traffic.
ListenBound ==
    /\ EventLoopFree
    /\ listener = "starting"
    /\ listener' = "bound"
    /\ UNCHANGED <<bootPc, started, finished, handle, applied, syncVars,
                   cleanupVars, exitVars, lastServed>>

\* The bind fails (port in use): the server emits 'error', for which no
\* handler is registered; Node ends the process with status 1.
ListenError ==
    /\ EventLoopFree
    /\ listener = "starting"
    /\ listener' = "none"
    /\ exited' = TRUE
    /\ exitCode' = 1
    /\ exitCause' = "listenError"
    /\ failedStep' = "listen"
    /\ UNCHANGED <<bootPc, started, finished, handle, applied, syncVars,
                   cleanupVars, lastServed>>

\* A request that uses subsystem u is accepted and handled.
HandleRequest(u) ==
    /\ EventLoopFree
    /\ listener = "bound"
    /\ lastServed' = [uses |-> u, st |-> handle[u],
                      shutting |-> signals > 0, sync |-> syncState]
    /\ UNCHANGED <<bootPc, started, finished, handle, applied, listener, syncVars,
                   cleanupVars, exitVars>>

\* process.on('SIGINT' | 'SIGTERM'): a new run of cleanup() starts, calls
\* realtimeManager.close() and suspends on it.
Signal(sig) ==
    /\ EventLoopFree
    /\ signals < MaxSignals
    /\ signals' = signals + 1
    /\ clPc' = [clPc EXCEPT ![signals + 1] = "awaitClose"]
    /\ clSig' = [clSig EXCEPT ![signals + 1] = sig]
    /\ clAttempts' = [clAttempts EXCEPT ![signals + 1] = <<"realtime">>]
    /\ applied' = applied \cup {<<"realtime", "close", handle["realtime"]>>}
    /\ reRun' = reRun \cup ({"realtime"} \cap completed)
    /\ UNCHANGED <<bootPc, started, finished, handle, listener, syncVars, clRaised,
                   completed, unhandled, exitVars, lastServed>>

\* The position after teardown action a.
AfterTeardown(a) ==
    IF IndexOf(TeardownOrder, a) = Len(TeardownOrder) THEN "exit"
    ELSE TeardownOrder[IndexOf(TeardownOrder, a) + 1]

\* The outcome of one teardown action of run r inside its try/catch.
Teardown(r, a, ok) ==
    /\ handle' = IF ok THEN [handle EXCEPT ![a] = AfterClose(@)] ELSE handle
    /\ completed' = IF ok THEN completed \cup {a} ELSE completed
    /\ clRaised' = IF ok THEN clRaised ELSE [clRaised EXCEPT ![r] = @ \cup {a}]
    /\ unhandled' = (unhandled \/ Escapes(~ok))
    /\ clPc' = [clPc EXCEPT ![r] = IF Escapes(~ok) THEN "aborted" ELSE AfterTeardown(a)]

\* await realtimeManager.close() settles for run r.
CloseSettles(r, ok) ==
    /\ EventLoopFree
    /\ clPc[r] = "awaitClose"
    /\ Teardown(r, "realtime", ok)
    /\ UNCHANGED <<bootPc, started, finished, applied, listener, syncVars, signals,
                   clSig, clAttempts, reRun, exitVars, lastServed>>

\* A synchronous teardown action of run r: it is attempted now.
SyncTeardown(r, a, ok) ==
    /\ ~exited
    /\ clPc[r] = a
    /\ clAttempts' = [clAttempts EXCEPT ![r] = Append(@, a)]
    /\ applied' = applied \cup {<<a, "close", handle[a]>>}
    /\ reRun' = reRun \cup ({a} \cap completed)
    /\ Teardown(r, a, ok)
    /\ UNCHANGED <<bootPc, started, finished, listener, syncVars, signals, clSig,
                   exitVars, lastServed>>

\* socketService.close()
CloseSocket(r, ok) == SyncTeardown(r, "socket", ok)

\* oAuthPKCEService.destroy()
DestroyOAuth(r, ok) == SyncTeardown(r, "oauth", ok)

\* destroyEmailCooldownInterval()
ClearTimer(r, ok) == SyncTeardown(r, "timer", ok)

\* process.exit(0) at the end of cleanup().
CleanupExit_Missing(r) ==
    /\ ~exited
    /\ clPc[r] = "exit"
    /\ clPc' = [clPc EXCEPT ![r] = "done"]
    /\ UNCHANGED <<bootPc, started, finished, handle, applied, listener, syncVars,
                   signals, clSig, clAttempts, clRaised, completed, reRun, unhandled,
                   exitVars, lastServed>>

CleanupExit(r) ==
    /\ ~exited
    /\ clPc[r] = "exit"
    /\ clPc' = [clPc EXCEPT ![r] = "done"]
    /\ exited' = TRUE
    /\ exitCode' = 0
    /\ exitCause' = "cleanup"
    /\ UNCHANGED <<failedStep, bootPc, started, finished, handle, applied, listener, syncVars,
                   signals, clSig, clAttempts, clRaised, completed, reRun, unhandled,
                   lastServed>>

LifeNext ==
    \/ \E ok \in BOOLEAN : AwaitSettles(ok)
    \/ \E ok \in BOOLEAN : Listen(ok)
    \/ \E ok \in BOOLEAN : SocketAttach(ok)
    \/ FireSync
    \/ \E ok \in BOOLEAN : SyncSettles(ok)
    \/ ListenBound
    \/ ListenError
    \/ \E u \in BootHandles : HandleRequest(u)
    \/ \E sig \in Signals : Signal(sig)
    \/ \E r \in Runs, ok \in BOOLEAN : CloseSettles(r, ok)
    \/ \E r \in Runs, ok \in BOOLEAN : CloseSocket(r, ok)
    \/ \E r \in Runs, ok \in BOOLEAN : DestroyOAuth(r, ok)
    \/ \E r \in Runs, ok \in BOOLEAN : ClearTimer(r, ok)
    \/ \E r \in Runs : CleanupExit(r)

\* ------------------------------------------------- functionProxyHandler
\* JavaScript values: [t |-> type, v |-> text].
Str(x) == [t |-> "string", v |-> x]
Bool(b) == [t |-> "boolean", v |-> IF b THEN "true" ELSE "false"]
Undefined == [t |-> "undefined", v |-> ""]
Null == [t |-> "null", v |-> ""]

Truthy(x) ==
    CASE x.t = "boolean" -> x.v = "true"
      [] x.t = "string" -> x.v # ""
      [] OTHER -> FALSE

\* a && b
JsAnd(a, b) == IF Truthy(a) THEN b ELSE a

\* a || b
JsOr_Nullish(a, b) == IF a.t \in {"undefined", "null"} THEN b ELSE a

JsOr(a, b) == IF Truthy(a) THEN a ELSE b

DefaultRuntimeUrl == "http://localhost:7133"
ManagedUrl == "https://fn.deno.dev"
EnvRuntimeUrl == "http://deno:7133"
EnvRuntimePathUrl == "http://deno:7133/runtime"
NotAUrl == "not a url"

\* The values getDeploymentUrl() can return and DENO_RUNTIME_URL can hold.
DeploymentUrls == {Null, Undefined, Str(""), Str(ManagedUrl)}
EnvValues == {Undefined, Str(""), Str(EnvRuntimeUrl), Str(EnvRuntimePathUrl), Str(NotAUrl)}

\* Base URLs that new URL(path, base) accepts.
IsValidBase(x) ==
    x.t = "string" /\ x.v \in {DefaultRuntimeUrl, ManagedUrl, EnvRuntimeUrl, EnvRuntimePathUrl}

\* new URL(base): scheme, host (with port) and path of a base URL.
ParseBase(b) ==
    CASE b = DefaultRuntimeUrl -> [scheme |-> "http", host |-> "localhost:7133", path |-> "/"]
      [] b = ManagedUrl -> [scheme |-> "https", host |-> "fn.deno.dev", path |-> "/"]
      [] b = EnvRuntimeUrl -> [scheme |-> "http", host |-> "deno:7133", path |-> "/"]
      [] b = EnvRuntimePathUrl -> [scheme |-> "http", host |-> "deno:7133", path |-> "/runtime"]

\* Thrown values: Error objects and other values.
Errors == {[isError |-> TRUE, msg |-> "connect ECONNREFUSED"],
           [isError |-> FALSE, msg |-> "aborted"]}
NoError == [isError |-> FALSE, msg |-> ""]

\* error instanceof Error ? error.message : String(error)
ErrorText(e) == e.msg

\* ---- the incoming request
\* Text is a sequence of tokens; "/" and "?" are tokens of their own.
RECURSIVE Join(_)
Join(toks) == IF toks = <<>> THEN "" ELSE toks[1] \o Join(Tail(toks))

\* req.params.slug, as Express hands it over (percent-decoded): "hello", and
\* "/evil.example" for the request path /functions/%2Fevil.example.
Slugs == {<<"hello">>, <<"/", "evil.example">>}

\* The query string part of req.url ("" if none).
Queries == {<<>>, <<"?", "x=1">>}

\* req.headers: name -> string, or an array for a repeated set-cookie.
HString(v) == [t |-> "string", v |-> v]
HArray(v) == [t |-> "array", v |-> v]

HeaderSets ==
    {{<<"host", HString("api.example")>>, <<"content-type", HString("application/json")>>,
      <<"set-cookie", HArray("a=1,b=2")>>},
     {<<"host", HString("api.example")>>, <<"x-trace", HString("t1")>>},
     {<<"accept", HString("*/*")>>}}

\* req.body, the result of express.json() / express.urlencoded(): an object,
\* empty when no parser accepted the content type.
Num(n) == [t |-> "number", v |-> n]
Obj(pairs) == [t |-> "object", v |-> pairs]

Bodies ==
    {[ctype |-> "application/json", raw |-> "{ \"a\": 1 }", body |-> Obj(<<<<"a", Num("1")>>>>)],
     [ctype |-> "application/x-www-form-urlencoded", raw |-> "a=1",
      body |-> Obj(<<<<"a", Str("1")>>>>)],
     [ctype |-> "text/plain", raw |-> "hello", body |-> Obj(<<>>)]}

Request(m, slug, q, h, b) ==
    [method |-> m, slug |-> slug, query |-> q, headers |-> h,
     ctype |-> b.ctype, raw |-> b.raw, body |-> b.body]

\* The requests the handler is called with.
Requests ==
    LET H(i) == CHOOSE h \in HeaderSets : Cardinality(h) = i
        B(c) == CHOOSE b \in Bodies : b.ctype = c
    IN  {Request("GET", <<"hello">>, <<"?", "x=1">>, H(1), B("text/plain")),
         Request("HEAD", <<"hello">>, <<>>, H(2), B("application/json")),
         Request("POST", <<"hello">>, <<>>, H(3), B("application/json")),
         Request("POST", <<"hello">>, <<"?", "x=1">>, H(2), B("text/plain")),
         Request("DELETE", <<"hello">>, <<>>, H(1), B("application/x-www-form-urlencoded")),
         Request("GET", <<"/", "evil.example">>, <<>>, H(2), B("text/plain"))}

NoRequest == Request("", <<>>, <<>>, {}, [ctype |-> "", raw |-> "", body |-> Obj(<<>>)])

\* JSON.stringify(value)
RECURSIVE StringifyPairs(_)
StringifyValue(x) ==
    CASE x.t = "string" -> "\"" \o x.v \o "\""
      [] x.t = "number" -> x.v
      [] x.t = "boolean" -> x.v
      [] OTHER -> "null"

StringifyPairs(pairs) ==
    IF pairs = <<>> THEN ""
    ELSE "\"" \o pairs[1][1] \o "\":" \o StringifyValue(pairs[1][2])
         \o (IF Len(pairs) > 1 THEN "," ELSE "") \o StringifyPairs(Tail(pairs))

JsonStringify(x) ==
    IF x.t = "object" THEN "{" \o StringifyPairs(x.v) \o "}" ELSE StringifyValue(x)

\* ['GET', 'HEAD']
BodylessMethods_GetOnly == {"GET"}

BodylessMethods == {"GET", "HEAD"}

\* body: ['GET', 'HEAD'].includes(req.method) ? undefined : JSON.stringify(req.body)
UpstreamBody(req) ==
    IF req.method \in BodylessMethods THEN Undefined ELSE Str(JsonStringify(req.body))

\* new URL(`/${slug}`, baseUrl): a reference that starts with two slashes
\* names its own host; any other reference replaces the path of the base.
ResolveRef(ref, base) ==
    IF Len(ref) >= 2 /\ ref[1] = "/" /\ ref[2] = "/"
    THEN LET rest == SelectSeq(ref, LAMBDA t : t # "/")
         IN  [scheme |-> base.scheme,
              host |-> IF rest = <<>> THEN base.host ELSE rest[1],
              path |-> "/" \o Join(IF rest = <<>> THEN <<>> ELSE Tail(rest))]
    ELSE [scheme |-> base.scheme, host |-> base.host, path |-> Join(ref)]

\* new URL(req.url, ...).search
SearchOf(query) == IF Len(query) <= 1 THEN "" ELSE Join(query)

\* targetUrl, with targetUrl.search = incomingUrl.search
TargetUrl(req, baseUrl) ==
    LET u == ResolveRef(<<"/">> \o req.slug, ParseBase(baseUrl))
    IN  [scheme |-> u.scheme, host |-> u.host, path |-> u.path, search |-> SearchOf(req.query)]

\* targetUrl.toString()
UrlText(u) == u.scheme \o "://" \o u.host \o u.path \o u.search

\* The headers loop and headers.host = targetUrl.host.
UpstreamHeaders(req, target) ==
    {<<p[1], p[2].v>> : p \in {q \in req.headers : q[2].t = "string" /\ q[1] # "host"}}
        \cup {<<"host", target.host>>}

\* The arguments of fetch(targetUrl.toString(), {method, headers, body}).
UpstreamRequest(req, baseUrl) ==
    [base |-> baseUrl,
     url |-> UrlText(TargetUrl(req, baseUrl)),
     host |-> TargetUrl(req, baseUrl).host,
     method |-> req.method,
     headers |-> UpstreamHeaders(req, TargetUrl(req, baseUrl)),
     body |-> UpstreamBody(req),
     sent |-> FALSE]

NoUpstream ==
    [base |-> "", url |-> "", host |-> "", method |-> "", headers |-> {},
     body |-> Undefined, sent |-> FALSE]

\* ---- the upstream response
UpstreamResponses ==
    {[status |-> 200, body |-> "gzip-decoded-bytes",
      headers |-> {<<"content-type", "application/json">>, <<"content-encoding", "gzip">>,
                   <<"content-length", "18">>, <<"x-function", "hello">>}],
     [status |-> 404, body |-> "not found",
      headers |-> {<<"transfer-encoding", "chunked">>, <<"connection", "keep-alive">>,
                   <<"access-control-allow-origin", "https://app.example">>}],
     [status |-> 204, body |-> "", headers |-> {}]}

NoUpResp == [status |-> 0, body |-> "", headers |-> {}]

\* ['transfer-encoding', 'content-length', 'connection', 'content-encoding']
ExcludedHeaders_NoEncoding == {"transfer-encoding", "content-length", "connection"}

ExcludedHeaders == {"transfer-encoding", "content-length", "connection", "content-encoding"}

\* Header names are case-insensitive: res.set stores them under one key.
LowerName(n) == IF n = "Access-Control-Allow-Origin" THEN "access-control-allow-origin" ELSE n

\* res.set(name, value)
SetHeader(hs, n, v) == {p \in hs : p[1] # LowerName(n)} \cup {<<LowerName(n), v>>}

\* The responseHeaders loop.
ResponseHeaders(u) == {p \in u.headers : p[1] \notin ExcludedHeaders}

\* const localRuntime = process.env.DENO_RUNTIME_URL || 'http://localhost:7133'
LocalRuntime == JsOr(envRuntime, Str(DefaultRuntimeUrl))

\* (isSubhostingConfigured() && (await getDeploymentUrl())) || localRuntime
BaseUrl_Cached(configured, url) ==
    IF pxPrevBase.t = "string" THEN pxPrevBase
    ELSE JsOr(JsAnd(Bool(configured), url), LocalRuntime)

BaseUrl(configured, url) == JsOr(JsAnd(Bool(configured), url), LocalRuntime)

\* The points of the handler that lie inside its try block (lines 12-62).
TryCovers_FetchOnly(point) == point \in {"fetch", "read"}

TryCovers(point) == point \in {"resolve", "awaitUrl", "build", "fetch", "read", "relay"}

GatewayError(e) ==
    [status |-> 502, relayed |-> FALSE, error |-> "GATEWAY_ERROR",
     message |-> "Failed to reach edge function runtime", details |-> ErrorText(e),
     headers |-> {}, body |-> ""]

\* res.status(response.status).set(responseHeaders)
\*    .set('Access-Control-Allow-Origin', '*').send(responseBody)
Relayed(u) ==
    [status |-> u.status, relayed |-> TRUE, error |-> "", message |-> "", details |-> "",
     headers |-> SetHeader(ResponseHeaders(u), "Access-Control-Allow-Origin", "*"),
     body |-> u.body]

PxIdle ==
    /\ pxPc = "idle"
    /\ pxCalls = 0
    /\ pxSawConfigured = FALSE
    /\ pxGotUrl = Undefined
    /\ pxBase = Undefined
    /\ pxSelections = 0
    /\ pxError = NoError
    /\ pxErrAt = "none"
    /\ pxResponses = <<>>
    /\ pxEscaped = FALSE
    /\ pxPrevBase = Undefined
    /\ pxReq = NoRequest
    /\ pxUpstream = NoUpstream
    /\ pxUpResp = NoUpResp

pxIoVars == <<pxPrevBase, pxReq, pxUpstream, pxUpResp>>

\* Express calls functionProxyHandler(req, res).
PxStart(req) ==
    /\ pxPc \in {"idle", "done"}
    /\ pxCalls < MaxCalls
    /\ pxCalls' = pxCalls + 1
    /\ pxPc' = "resolve"
    /\ pxSawConfigured' = FALSE
    /\ pxGotUrl' = Undefined
    /\ pxBase' = Undefined
    /\ pxSelections' = 0
    /\ pxError' = NoError
    /\ pxErrAt' = "none"
    /\ pxResponses' = <<>>
    /\ pxEscaped' = FALSE
    /\ pxPrevBase' = IF pxSelections = 1 THEN pxBase ELSE pxPrevBase
    /\ pxReq' = req
    /\ pxUpstream' = NoUpstream
    /\ pxUpResp' = NoUpResp
    /\ UNCHANGED <<lifeVars, tmVars, bsVars, resolverVars>>

\* An exception e raised at point: the catch block answers 502 if the point
\* lies inside the try block; otherwise e leaves the handler.
PxRaise(point, e) ==
    /\ pxError' = e
    /\ pxErrAt' = point
    /\ pxPc' = "done"
    /\ IF TryCovers(point)
       THEN /\ pxResponses' = Append(pxResponses, GatewayError(e))
            /\ pxEscaped' = pxEscaped
       ELSE /\ pxResponses' = pxResponses
            /\ pxEscaped' = TRUE

\* FunctionService.getInstance(), localRuntime, isSubhostingConfigured():
\* not configured, the base URL is chosen at once; configured,
\* getDeploymentUrl() is called and awaited.
PxResolve(ok, e) ==
    /\ pxPc = "resolve"
    /\ IF ~ok
       THEN /\ PxRaise("resolve", e)
            /\ UNCHANGED <<pxSawConfigured, pxBase, pxSelections>>
       ELSE /\ pxSawConfigured' = rsConfigured
            /\ IF rsConfigured
               THEN /\ pxPc' = "awaitUrl"
                    /\ UNCHANGED <<pxBase, pxSelections>>
               ELSE /\ pxPc' = "build"
                    /\ pxBase' = BaseUrl(rsConfigured, Undefined)
                    /\ pxSelections' = pxSelections + 1
            /\ UNCHANGED <<pxError, pxErrAt, pxResponses, pxEscaped>>
    /\ UNCHANGED <<lifeVars, tmVars, bsVars, resolverVars, pxCalls, pxGotUrl, pxIoVars>>

\* await getDeploymentUrl() settles; the base URL is chosen.
PxUrlReturns(ok, e) ==
    /\ pxPc = "awaitUrl"
    /\ IF ~ok
       THEN /\ PxRaise("awaitUrl", e)
            /\ UNCHANGED <<pxGotUrl, pxBase, pxSelections>>
       ELSE /\ pxGotUrl' = rsUrl
            /\ pxBase' = BaseUrl(pxSawConfigured, rsUrl)
            /\ pxSelections' = pxSelections + 1
            /\ pxPc' = "build"
            /\ UNCHANGED <<pxError, pxErrAt, pxResponses, pxEscaped>>
    /\ UNCHANGED <<lifeVars, tmVars, bsVars, resolverVars, pxCalls, pxSawConfigured, pxIoVars>>

\* new URL(`/${slug}`, baseUrl), new URL(req.url, ...), the header copy:
\* new URL throws on a base that is no URL.
PxBuild(e) ==
    /\ pxPc = "build"
    /\ IF IsValidBase(pxBase)
       THEN /\ pxPc' = "fetch"
            /\ pxUpstream' = UpstreamRequest(pxReq, pxBase.v)
            /\ UNCHANGED <<pxError, pxErrAt, pxResponses, pxEscaped>>
       ELSE /\ PxRaise("build", e)
            /\ UNCHANGED pxUpstream
    /\ UNCHANGED <<lifeVars, tmVars, bsVars, resolverVars, pxCalls, pxSawConfigured, pxGotUrl, pxBase,
                   pxSelections, pxPrevBase, pxReq, pxUpResp>>

\* One awaited or synchronous stage at position at: it succeeds and the
\* handler moves to next, or it raises e.
PxStage(at, next, ok, e) ==
    /\ pxPc = at
    /\ IF ok
       THEN /\ pxPc' = next
            /\ UNCHANGED <<pxError, pxErrAt, pxResponses, pxEscaped>>
       ELSE PxRaise(at, e)
    /\ UNCHANGED <<lifeVars, tmVars, bsVars, resolverVars, pxCalls, pxSawConfigured, pxGotUrl, pxBase,
                   pxSelections, pxPrevBase, pxReq>>

\* await fetch(targetUrl, ...): the upstream call is made; it answers with
\* u or fails.
PxFetch(ok, e, u) ==
    /\ PxStage("fetch", "read", ok, e)
    /\ pxUpstream' = [pxUpstream EXCEPT !.sent = TRUE]
    /\ pxUpResp' = IF ok THEN u ELSE pxUpResp

\* Buffer.from(await response.arrayBuffer())
PxRead(ok, e) ==
    /\ PxStage("read", "relay", ok, e)
    /\ UNCHANGED <<pxUpstream, pxUpResp>>

\* res.status(..).set(..).set(..).send(responseBody): the header calls throw
\* on an invalid header before anything is sent.
PxRelay_SendsFirst(ok, e) ==
    /\ pxPc = "relay"
    /\ pxPc' = "done"
    /\ IF ok
       THEN /\ pxResponses' = Append(pxResponses, Relayed(pxUpResp))
            /\ UNCHANGED <<pxError, pxErrAt, pxEscaped>>
       ELSE /\ pxResponses' = pxResponses \o <<Relayed(pxUpResp), GatewayError(e)>>
            /\ pxError' = e
            /\ pxErrAt' = "relay"
            /\ UNCHANGED pxEscaped
    /\ UNCHANGED <<lifeVars, tmVars, bsVars, resolverVars, pxCalls, pxSawConfigured, pxGotUrl, pxBase,
                   pxSelections, pxIoVars>>

PxRelay(ok, e) ==
    /\ pxPc = "relay"
    /\ IF ok
       THEN /\ pxPc' = "done"
            /\ pxResponses' = Append(pxResponses, Relayed(pxUpResp))
            /\ UNCHANGED <<pxError, pxErrAt, pxEscaped>>
       ELSE PxRaise("relay", e)
    /\ UNCHANGED <<lifeVars, tmVars, bsVars, resolverVars, pxCalls, pxSawConfigured, pxGotUrl, pxBase,
                   pxSelections, pxIoVars>>

\* The managed backend comes up or goes down (the deployment sync, an
\* operator): the resolver's answers change.
ResolverChanges(c, u) ==
    /\ <<c, u>> # <<rsConfigured, rsUrl>>
    /\ rsConfigured' = c
    /\ rsUrl' = u
    /\ UNCHANGED <<lifeVars, tmVars, bsVars, envRuntime, pxVars>>

PxNext ==
    \/ \E req \in Requests : PxStart(req)
    \/ \E ok \in BOOLEAN, e \in Errors : PxResolve(ok, e)
    \/ \E ok \in BOOLEAN, e \in Errors : PxUrlReturns(ok, e)
    \/ \E e \in Errors : PxBuild(e)
    \/ \E ok \in BOOLEAN, e \in Errors, u \in UpstreamResponses : PxFetch(ok, e, u)
    \/ \E ok \in BOOLEAN, e \in Errors : PxRead(ok, e)
    \/ \E ok \in BOOLEAN, e \in Errors : PxRelay(ok, e)
    \/ \E c \in BOOLEAN, u \in DeploymentUrls : ResolverChanges(c, u)

\* ------------------------------------- request logging (createApp, 89-156)
\* Text is a sequence of characters, each given by the number of bytes of
\* its UTF-8 encoding.
RECURSIVE Sum(_)
Sum(seq) == IF seq = <<>> THEN 0 ELSE seq[1] + Sum(Tail(seq))

Ascii(n) == [i \in 1..n |-> 1]

\* Buffer.byteLength(text)
ByteLength_Chars(text) == Len(text)

ByteLength(text) == Sum(text)

\* The values handed to res.send / res.json: c is the text of a string or
\* the bytes of a Buffer, f the fields of an object (key text, string value).
VString(c) == [t |-> "string", c |-> c, f |-> <<>>]
VBuffer(c) == [t |-> "buffer", c |-> c, f |-> <<>>]
VBool(b) == [t |-> "boolean", c |-> IF b THEN Ascii(4) ELSE Ascii(5), f |-> <<>>]
\* A number, by its decimal text.
VNumber(c) == [t |-> "number", c |-> c, f |-> <<>>]
VObject(f) == [t |-> "object", c |-> <<>>, f |-> f]
VNull == [t |-> "null", c |-> <<>>, f |-> <<>>]
VUndefined == [t |-> "undefined", c |-> <<>>, f |-> <<>>]
\* An object that refers to itself.
VCircular == [t |-> "circular", c |-> <<>>, f |-> <<>>]

PText == VString(<<1, 2, 1>>)
PBytes == VBuffer(Ascii(5))
PTrue == VBool(TRUE)
\* The number 404, and the text "Not Found" res.send(404) writes with status 404.
PNumber == VNumber(Ascii(3))
StatusText == VString(Ascii(9))
PObject == VObject(<<<<Ascii(1), <<2>>>>>>)
\* The body errorMiddleware answers with.
ErrorBody == VObject(<<<<Ascii(5), Ascii(3)>>>>)

Payloads == {PText, PBytes, PTrue, PNumber, PObject, VNull, VUndefined, VCircular}

\* The emission calls a handler makes.
Emissions == {<<"send", d>> : d \in Payloads} \cup {<<"json", d>> : d \in Payloads \ {PBytes}}

\* JSON.stringify(data): a text, undefined, or a TypeError.
RECURSIVE FieldsText(_)
FieldsText(f) ==
    IF f = <<>> THEN <<>>
    ELSE Ascii(1) \o f[1][1] \o Ascii(3) \o f[1][2] \o Ascii(1)
         \o (IF Len(f) > 1 THEN Ascii(1) ELSE <<>>) \o FieldsText(Tail(f))

Stringify(data) ==
    CASE data.t = "circular" -> [throws |-> TRUE, defined |-> FALSE, c |-> <<>>]
      [] data.t = "undefined" -> [throws |-> FALSE, defined |-> FALSE, c |-> <<>>]
      [] data.t = "null" -> [throws |-> FALSE, defined |-> TRUE, c |-> Ascii(4)]
      [] data.t = "string" -> [throws |-> FALSE, defined |-> TRUE,
                               c |-> Ascii(1) \o data.c \o Ascii(1)]
      [] data.t \in {"boolean", "number"} -> [throws |-> FALSE, defined |-> TRUE, c |-> data.c]
      [] OTHER -> [throws |-> FALSE, defined |-> TRUE,
                   c |-> Ascii(1) \o FieldsText(data.f) \o Ascii(1)]

\* The size computation of the res.send override (lines 101-116).
SendSize(data, size) ==
    IF data.t \in {"undefined", "null"} THEN size
    ELSE CASE data.t = "string" -> ByteLength(data.c)
           [] data.t = "buffer" -> Len(data.c)
           [] data.t \in {"number", "boolean"} -> ByteLength(data.c)
           [] OTHER -> IF Stringify(data).throws THEN 0
                       ELSE ByteLength(Stringify(data).c)

\* The size computation of the res.json override (lines 124-131).
JsonSize(data, size) ==
    IF data.t = "undefined" THEN size
    ELSE IF Stringify(data).throws THEN 0 ELSE ByteLength(Stringify(data).c)

\* The state of one response while it is emitted.
Emitting(size) ==
    [size |-> size, calls |-> <<>>, orig |-> <<>>, body |-> VUndefined, written |-> FALSE,
     thrown |-> FALSE, statusForm |-> FALSE]

\* The override res.fn(data): it measures, then calls the original with
\* data. The original res.json serializes and calls this.send(text); the
\* original res.send writes a string or a Buffer, takes a number as the
\* status and writes its text, and calls this.json(data) for a boolean or an
\* object. this.send and this.json are the overrides.
RECURSIVE Override(_, _, _)
Override(fn, data, st) ==
    LET measured == [st EXCEPT !.size = IF fn = "send" THEN SendSize(data, st.size)
                                                       ELSE JsonSize(data, st.size),
                               !.calls = Append(@, <<fn, data>>),
                               !.orig = Append(@, <<fn, data>>)]
    IN  IF fn = "json"
        THEN IF Stringify(data).throws THEN [measured EXCEPT !.thrown = TRUE]
             ELSE IF Stringify(data).defined
                  THEN Override("send", VString(Stringify(data).c), measured)
                  ELSE Override("send", VUndefined, measured)
        ELSE IF data.t \in {"string", "buffer"}
             THEN [measured EXCEPT !.body = data, !.written = TRUE]
             ELSE IF data.t \in {"undefined", "null"}
                  THEN [measured EXCEPT !.body = VString(<<>>), !.written = TRUE]
                  ELSE IF data.t = "number"
                       THEN [measured EXCEPT !.body = StatusText, !.written = TRUE,
                                             !.statusForm = TRUE]
                       ELSE Override("json", data, measured)

\* req.path, as its segments.
TmPaths ==
    {<<"api", "health">>, <<"api", "logs">>, <<"api", "logs", "audits">>,
     <<"api", "storage", "buckets", "logs", "objects">>, <<"functions", "hello">>}

TmMethods == {"GET", "POST", "OPTIONS"}

NoTmRequest == [method |-> "", path |-> <<>>]

\* req.path.includes('/logs/'): some segment but the last is "logs".
IncludesLogs(path) == \E i \in 1..(Len(path) - 1) : path[i] = "logs"

\* The paths served by logsRouter: apiRouter.use('/logs', logsRouter) under
\* app.use('/api', apiRouter).
IsLogRoute(path) == Len(path) >= 2 /\ path[1] = "api" /\ path[2] = "logs"

\* skip: (req) => req.path === '/api/health'
LimiterSkips(path) == path = <<"api", "health">>

TmIdle ==
    /\ tmPc = "idle"
    /\ tmReq = NoTmRequest
    /\ tmWrapped = FALSE
    /\ tmSize = 0
    /\ tmTop = <<>>
    /\ tmCalls = <<>>
    /\ tmOrig = <<>>
    /\ tmBody = VUndefined
    /\ tmStatus = 200
    /\ tmThrown = FALSE
    /\ tmFinished = FALSE
    /\ tmLog = <<>>

tmOthers == <<lifeVars, resolverVars, pxVars, bsVars>>

\* A request enters the chain: cors, cookieParser, limiter, then the
\* logging middleware. cors answers an OPTIONS request itself (204); the
\* limiter answers 429 when the client is over its limit; else the logging
\* middleware installs its overrides and its 'finish' listener.
TmArrive(method, path, limited) ==
    /\ tmPc \in {"idle", "done", "hung"}
    /\ tmReq' = [method |-> method, path |-> path]
    /\ tmSize' = 0
    /\ tmTop' = <<>>
    /\ tmCalls' = <<>>
    /\ tmOrig' = <<>>
    /\ tmBody' = VUndefined
    /\ tmThrown' = FALSE
    /\ tmFinished' = FALSE
    /\ tmLog' = <<>>
    /\ IF method = "OPTIONS"
       THEN tmWrapped' = FALSE /\ tmStatus' = 204 /\ tmPc' = "sent"
       ELSE IF limited /\ ~LimiterSkips(path)
            THEN tmWrapped' = FALSE /\ tmStatus' = 429 /\ tmPc' = "sent"
            ELSE tmWrapped' = TRUE /\ tmStatus' = 200 /\ tmPc' = "routing"
    /\ UNCHANGED tmOthers

\* One call of res.status(status).fn(data), run to its end.
TmCall(fn, data, status) ==
    LET st == Override(fn, data, Emitting(tmSize))
    IN  /\ tmTop' = Append(tmTop, <<fn, data>>)
        /\ tmSize' = st.size
        /\ tmCalls' = tmCalls \o st.calls
        /\ tmOrig' = tmOrig \o st.orig
        /\ tmBody' = st.body
        /\ tmStatus' = IF st.statusForm THEN 404 ELSE status
        /\ tmThrown' = (tmThrown \/ st.thrown)
        /\ tmPc' = IF st.thrown THEN "threw" ELSE "sent"
        /\ UNCHANGED <<tmReq, tmWrapped, tmFinished, tmLog, tmOthers>>

\* A route handler, or the 404 handler, answers.
TmEmit(fn, data, status) ==
    /\ tmPc = "routing"
    /\ TmCall(fn, data, status)

\* The exception of a failed emission reaches errorMiddleware, which answers.
TmErrorAnswer ==
    /\ tmPc = "threw"
    /\ TmCall("json", ErrorBody, 500)

\* The exception was raised in a promise nobody handles: no answer is sent.
TmUnhandled ==
    /\ tmPc = "threw"
    /\ tmPc' = "hung"
    /\ UNCHANGED <<tmReq, tmWrapped, tmSize, tmTop, tmCalls, tmOrig, tmBody, tmStatus,
                   tmThrown, tmFinished, tmLog, tmOthers>>

\* The response has been handed to the operating system.
TmFlush ==
    /\ tmPc = "sent"
    /\ tmFinished' = TRUE
    /\ tmPc' = "finish"
    /\ UNCHANGED <<tmReq, tmWrapped, tmSize, tmTop, tmCalls, tmOrig, tmBody, tmStatus,
                   tmThrown, tmLog, tmOthers>>

\* res.on('finish', ...): the listener of the logging middleware.
TmOnFinish ==
    /\ tmPc = "finish"
    /\ tmPc' = "done"
    /\ tmLog' = IF tmWrapped /\ ~IncludesLogs(tmReq.path)
                THEN Append(tmLog, [method |-> tmReq.method, path |-> tmReq.path,
                                    status |-> tmStatus, size |-> tmSize])
                ELSE tmLog
    /\ UNCHANGED <<tmReq, tmWrapped, tmSize, tmTop, tmCalls, tmOrig, tmBody, tmStatus,
                   tmThrown, tmFinished, tmOthers>>

TmNext ==
    \/ \E m \in TmMethods, p \in TmPaths, limited \in BOOLEAN : TmArrive(m, p, limited)
    \/ \E e \in Emissions, status \in {200, 404} : TmEmit(e[1], e[2], status)
    \/ TmErrorAnswer
    \/ TmUnhandled
    \/ TmFlush
    \/ TmOnFinish

\* ------------------------------- bootstrapMigrations (function-proxy.ts)
OldTable == "public._migrations"
MovedTable == "system._migrations"
NewTable == "system.migrations"

Roles == {"anon", "authenticated", "project_admin"}

\* A database: its tracking tables, whether the schema system exists, its
\* roles, and whether USAGE on schema public is granted to the three roles.
Db(tables, schema, roles, usage) ==
    [tables |-> tables, schema |-> schema, roles |-> roles, usage |-> usage]

FreshDb == Db({}, FALSE, {}, FALSE)

\* The databases a run can find: a table in schema system needs the schema.
StartDbs ==
    {Db(t, sc, r, r = Roles) :
        t \in SUBSET {OldTable, NewTable}, sc \in BOOLEAN, r \in {{}, {"anon"}, Roles}}
      \ {d \in [tables : SUBSET {OldTable, NewTable}, schema : {FALSE},
                roles : SUBSET Roles, usage : BOOLEAN] : NewTable \in d.tables}

\* How a statement ends: it succeeds, the server rejects it, or the
\* connection is lost. On a lost connection every statement ends "lost".
Outcomes == {"ok", "error", "lost"}
Possible(o) == bsConn = "down" => o = "lost"

\* SELECT EXISTS (... information_schema.tables ...)
TableExists(db, t) == t \in db.tables

\* CREATE SCHEMA IF NOT EXISTS system
CreateSchema(db) == [db EXCEPT !.schema = TRUE]

\* ALTER TABLE public._migrations SET SCHEMA system
CanSetSchema(db) == OldTable \in db.tables /\ db.schema /\ MovedTable \notin db.tables
SetSchema(db) == [db EXCEPT !.tables = (@ \ {OldTable}) \cup {MovedTable}]

\* ALTER TABLE system._migrations RENAME TO migrations
CanRename(db) == MovedTable \in db.tables /\ NewTable \notin db.tables
Rename(db) == [db EXCEPT !.tables = (@ \ {MovedTable}) \cup {NewTable}]

\* The DO block: the three roles are created if missing, USAGE is granted.
EnsureRoles_FirstMissing(db) ==
    IF db.roles = Roles THEN [db EXCEPT !.usage = TRUE]
    ELSE [db EXCEPT !.roles = @ \cup {CHOOSE x \in Roles : x \notin db.roles}]

EnsureRoles(db) == [db EXCEPT !.roles = @ \cup Roles, !.usage = TRUE]

\* The branch taken after the two queries (lines 126, 144): the move, the
\* branch of an existing system.migrations, or neither.
Branch(old, new) ==
    IF old /\ ~new THEN "createSchema" ELSE IF new THEN "ensureSchema" ELSE "roles"

BsIdle(db, env) ==
    /\ bsPc = "idle"
    /\ bsRuns = 0
    /\ bsEnvSet = env
    /\ bsDb = db
    /\ bsTx = db
    /\ bsTxn = "none"
    /\ bsConn = "none"
    /\ bsStartDb = db
    /\ bsOld = FALSE
    /\ bsNew = FALSE
    /\ bsMoveTried = FALSE
    /\ bsMoveError = "none"
    /\ bsRaised = "none"
    /\ bsReported = {}
    /\ bsReleases = 0
    /\ bsPoolEnds = 0
    /\ bsExitCode = 0
    /\ bsAfterOk = [seen |-> FALSE, db |-> db]

bsOthers == <<lifeVars, resolverVars, pxVars, tmVars>>

\* The script is started: without DATABASE_URL it logs and calls
\* process.exit(1); else it creates the pool.
BsStart ==
    /\ bsPc \in {"idle", "done", "exited"}
    /\ bsRuns < MaxRuns
    /\ bsRuns' = bsRuns + 1
    /\ bsStartDb' = bsDb
    /\ bsTx' = bsDb
    /\ bsTxn' = "none"
    /\ bsConn' = "none"
    /\ bsOld' = FALSE
    /\ bsNew' = FALSE
    /\ bsMoveTried' = FALSE
    /\ bsMoveError' = "none"
    /\ bsRaised' = "none"
    /\ bsReported' = {}
    /\ bsReleases' = 0
    /\ bsPoolEnds' = 0
    /\ IF bsEnvSet
       THEN bsPc' = "connect" /\ bsExitCode' = 0
       ELSE bsPc' = "exited" /\ bsExitCode' = 1
    /\ bsAfterOk' = IF ~bsAfterOk.seen /\ bsPc = "done" /\ bsExitCode = 0
                    THEN [seen |-> TRUE, db |-> bsDb]
                    ELSE bsAfterOk
    /\ UNCHANGED <<bsEnvSet, bsDb, bsOthers>>

\* An error thrown inside the inner try block: the finally block runs next.
BsThrow(e) ==
    /\ bsRaised' = e
    /\ bsPc' = "release"

\* The connection is lost: the server rolls back an open transaction.
BsLost ==
    /\ bsConn' = "down"
    /\ bsTxn' = "none"
    /\ bsTx' = bsDb

\* const client = await pool.connect()
BsConnect(ok) ==
    /\ bsPc = "connect"
    /\ IF ok
       THEN bsConn' = "up" /\ bsPc' = "queryOld" /\ UNCHANGED bsRaised
       ELSE bsConn' = "none" /\ bsPc' = "catch" /\ bsRaised' = "connect"
    /\ UNCHANGED <<bsRuns, bsEnvSet, bsDb, bsTx, bsTxn, bsStartDb, bsOld, bsNew, bsMoveTried,
                   bsMoveError, bsReported, bsReleases, bsPoolEnds, bsExitCode, bsAfterOk, bsOthers>>

\* A statement outside the transaction that reads or changes nothing here
\* when it fails.
BsFails(o, at) ==
    /\ BsThrow(at)
    /\ IF o = "lost" THEN BsLost ELSE UNCHANGED <<bsConn, bsTxn, bsTx>>

\* oldTableExists = await client.query(...)
BsQueryOld(o) ==
    /\ bsPc = "queryOld"
    /\ Possible(o)
    /\ IF o = "ok"
       THEN /\ bsOld' = TableExists(bsDb, OldTable)
            /\ bsPc' = "queryNew"
            /\ UNCHANGED <<bsRaised, bsConn, bsTxn, bsTx>>
       ELSE BsFails(o, "queryOld") /\ UNCHANGED bsOld
    /\ UNCHANGED <<bsRuns, bsEnvSet, bsDb, bsStartDb, bsNew, bsMoveTried, bsMoveError,
                   bsReported, bsReleases, bsPoolEnds, bsExitCode, bsAfterOk, bsOthers>>

\* newTableExists = await client.query(...), and the branch on both results.
BsQueryNew(o) ==
    /\ bsPc = "queryNew"
    /\ Possible(o)
    /\ IF o = "ok"
       THEN /\ bsNew' = TableExists(bsDb, NewTable)
            /\ bsPc' = Branch(bsOld, bsNew')
            /\ UNCHANGED <<bsRaised, bsConn, bsTxn, bsTx>>
       ELSE BsFails(o, "queryNew") /\ UNCHANGED bsNew
    /\ UNCHANGED <<bsRuns, bsEnvSet, bsDb, bsStartDb, bsOld, bsMoveTried, bsMoveError,
                   bsReported, bsReleases, bsPoolEnds, bsExitCode, bsAfterOk, bsOthers>>

\* await client.query('CREATE SCHEMA IF NOT EXISTS system'), at position at
\* (line 130 before the move, line 149 in the second branch).
BsSchemaStage(at, next, o) ==
    /\ bsPc = at
    /\ Possible(o)
    /\ IF o = "ok"
       THEN /\ bsDb' = CreateSchema(bsDb)
            /\ bsTx' = CreateSchema(bsDb)
            /\ bsPc' = next
            /\ UNCHANGED <<bsRaised, bsConn, bsTxn>>
       ELSE BsFails(o, at) /\ UNCHANGED bsDb
    /\ UNCHANGED <<bsRuns, bsEnvSet, bsStartDb, bsOld, bsNew, bsMoveTried, bsMoveError,
                   bsReported, bsReleases, bsPoolEnds, bsExitCode, bsAfterOk, bsOthers>>

BsCreateSchema(o) == BsSchemaStage("createSchema", "begin", o)

BsEnsureSchema(o) == BsSchemaStage("ensureSchema", "roles", o)

\* await client.query('BEGIN'): outside the try block of the move.
BsBegin(o) ==
    /\ bsPc = "begin"
    /\ Possible(o)
    /\ IF o = "ok"
       THEN /\ bsTxn' = "open"
            /\ bsTx' = bsDb
            /\ bsMoveTried' = TRUE
            /\ bsPc' = "setSchema"
            /\ UNCHANGED <<bsRaised, bsConn>>
       ELSE BsFails(o, "begin") /\ UNCHANGED bsMoveTried
    /\ UNCHANGED <<bsRuns, bsEnvSet, bsDb, bsStartDb, bsOld, bsNew, bsMoveError,
                   bsReported, bsReleases, bsPoolEnds, bsExitCode, bsAfterOk, bsOthers>>

\* A statement of the move failed: the catch block of the move runs next.
BsMoveFails(o, at) ==
    /\ bsMoveError' = at
    /\ bsPc' = "rollback"
    /\ IF o = "lost"
       THEN BsLost
       ELSE bsTxn' = "failed" /\ UNCHANGED <<bsConn, bsTx>>

\* One ALTER TABLE of the move, inside the transaction: the server rejects
\* it if it cannot be applied.
BsAlter(at, next, can, o) ==
    /\ bsPc = at
    /\ Possible(o)
    /\ o = "ok" => can
    /\ IF o = "ok"
       THEN bsPc' = next /\ UNCHANGED <<bsMoveError, bsConn, bsTxn>>
       ELSE BsMoveFails(o, at)
    /\ UNCHANGED <<bsRuns, bsEnvSet, bsDb, bsStartDb, bsOld, bsNew, bsMoveTried, bsRaised,
                   bsReported, bsReleases, bsPoolEnds, bsExitCode, bsAfterOk, bsOthers>>

\* await client.query('ALTER TABLE public._migrations SET SCHEMA system')
BsSetSchema(o) ==
    /\ BsAlter("setSchema", "rename", CanSetSchema(bsTx), o)
    /\ o = "ok" => bsTx' = SetSchema(bsTx)

\* await client.query('ALTER TABLE system._migrations RENAME TO migrations')
BsRename(o) ==
    /\ BsAlter("rename", "commit", CanRename(bsTx), o)
    /\ o = "ok" => bsTx' = Rename(bsTx)

\* await client.query('COMMIT'): on success the work of the transaction
\* becomes the state of the database; rejected, the transaction is rolled
\* back; with the connection lost, it was committed or it was not.
BsCommit(o, committed) ==
    /\ bsPc = "commit"
    /\ Possible(o)
    /\ committed = (o = "ok") \/ o = "lost"
    /\ bsDb' = IF committed THEN bsTx ELSE bsDb
    /\ bsTx' = bsDb'
    /\ bsTxn' = "none"
    /\ IF o = "ok"
       THEN bsPc' = "roles" /\ UNCHANGED <<bsMoveError, bsConn>>
       ELSE /\ bsMoveError' = "commit"
            /\ bsPc' = "rollback"
            /\ bsConn' = IF o = "lost" THEN "down" ELSE bsConn
    /\ UNCHANGED <<bsRuns, bsEnvSet, bsStartDb, bsOld, bsNew, bsMoveTried, bsRaised,
                   bsReported, bsReleases, bsPoolEnds, bsExitCode, bsAfterOk, bsOthers>>

\* catch (error) { await client.query('ROLLBACK'); throw error; }: ROLLBACK
\* fails only with the connection; then its error is thrown and the
\* statement throw error is not reached.
BsRollback(o) ==
    /\ bsPc = "rollback"
    /\ Possible(o)
    /\ o # "error"
    /\ bsTx' = bsDb
    /\ bsTxn' = "none"
    /\ bsConn' = IF o = "lost" THEN "down" ELSE bsConn
    /\ BsThrow(IF o = "ok" THEN bsMoveError ELSE "rollback")
    /\ UNCHANGED <<bsRuns, bsEnvSet, bsDb, bsStartDb, bsOld, bsNew, bsMoveTried, bsMoveError,
                   bsReported, bsReleases, bsPoolEnds, bsExitCode, bsAfterOk, bsOthers>>

\* await client.query(`DO $$ ... $$`): the roles.
BsRoles(o) ==
    /\ bsPc = "roles"
    /\ Possible(o)
    /\ IF o = "ok"
       THEN /\ bsDb' = EnsureRoles(bsDb)
            /\ bsTx' = EnsureRoles(bsDb)
            /\ bsPc' = "release"
            /\ UNCHANGED <<bsRaised, bsConn, bsTxn>>
       ELSE BsFails(o, "roles") /\ UNCHANGED bsDb
    /\ UNCHANGED <<bsRuns, bsEnvSet, bsStartDb, bsOld, bsNew, bsMoveTried, bsMoveError,
                   bsReported, bsReleases, bsPoolEnds, bsExitCode, bsAfterOk, bsOthers>>

\* finally { client.release() }: then the outer catch, if an error is on
\* its way, and the outer finally.
BsRelease ==
    /\ bsPc = "release"
    /\ bsReleases' = bsReleases + 1
    /\ bsPc' = IF bsRaised # "none" THEN "catch" ELSE "end"
    /\ UNCHANGED <<bsRuns, bsEnvSet, bsDb, bsTx, bsTxn, bsConn, bsStartDb, bsOld, bsNew,
                   bsMoveTried, bsMoveError, bsRaised, bsReported, bsPoolEnds, bsExitCode,
                   bsAfterOk, bsOthers>>

\* catch (error) { logger.error(...); process.exitCode = 1 }
BsCatch_LogOnly ==
    /\ bsPc = "catch"
    /\ bsReported' = bsReported \cup {bsRaised}
    /\ bsPc' = "end"
    /\ UNCHANGED <<bsRuns, bsEnvSet, bsDb, bsTx, bsTxn, bsConn, bsStartDb, bsOld, bsNew,
                   bsMoveTried, bsMoveError, bsRaised, bsReleases, bsPoolEnds, bsExitCode,
                   bsAfterOk, bsOthers>>

BsCatch ==
    /\ bsPc = "catch"
    /\ bsReported' = bsReported \cup {bsRaised}
    /\ bsExitCode' = 1
    /\ bsPc' = "end"
    /\ UNCHANGED <<bsRuns, bsEnvSet, bsDb, bsTx, bsTxn, bsConn, bsStartDb, bsOld, bsNew,
                   bsMoveTried, bsMoveError, bsRaised, bsReleases, bsPoolEnds, bsAfterOk, bsOthers>>

\* finally { await pool.end() }: a rejection leaves bootstrapMigrations and
\* reaches the .catch handler, which logs and sets process.exitCode = 1.
BsPoolEnd(ok) ==
    /\ bsPc = "end"
    /\ bsPoolEnds' = bsPoolEnds + 1
    /\ bsConn' = "none"
    /\ bsPc' = "done"
    /\ IF ok
       THEN UNCHANGED <<bsReported, bsExitCode>>
       ELSE bsReported' = bsReported \cup {"poolEnd"} /\ bsExitCode' = 1
    /\ UNCHANGED <<bsRuns, bsEnvSet, bsDb, bsTx, bsTxn, bsStartDb, bsOld, bsNew, bsMoveTried,
                   bsMoveError, bsRaised, bsReleases, bsAfterOk, bsOthers>>

BsNext ==
    \/ BsStart
    \/ \E ok \in BOOLEAN : BsConnect(ok)
    \/ \E o \in Outcomes : BsQueryOld(o)
    \/ \E o \in Outcomes : BsQueryNew(o)
    \/ \E o \in Outcomes : BsCreateSchema(o)
    \/ \E o \in Outcomes : BsEnsureSchema(o)
    \/ \E o \in Outcomes : BsBegin(o)
    \/ \E o \in Outcomes : BsSetSchema(o)
    \/ \E o \in Outcomes : BsRename(o)
    \/ \E o \in Outcomes, committed \in BOOLEAN : BsCommit(o, committed)
    \/ \E o \in Outcomes : BsRollback(o)
    \/ \E o \in Outcomes : BsRoles(o)
    \/ BsRelease
    \/ BsCatch
    \/ \E ok \in BOOLEAN : BsPoolEnd(ok)

\* ------------------------------------------------------- specifications
Init ==
    /\ LifeInit
    /\ rsConfigured = FALSE
    /\ rsUrl = Null
    /\ envRuntime = Undefined
    /\ PxIdle
    /\ TmIdle
    /\ BsIdle(FreshDb, TRUE)

Next == LifeNext /\ UNCHANGED <<resolverVars, pxVars, tmVars, bsVars>>

Spec == Init /\ [][Next]_vars

ProxyInit ==
    /\ LifeInit
    /\ rsConfigured \in BOOLEAN
    /\ rsUrl \in DeploymentUrls
    /\ envRuntime \in EnvValues
    /\ PxIdle
    /\ TmIdle
    /\ BsIdle(FreshDb, TRUE)

SpecProxy == ProxyInit /\ [][PxNext]_vars

TelemetryInit ==
    /\ LifeInit
    /\ rsConfigured = FALSE
    /\ rsUrl = Null
    /\ envRuntime = Undefined
    /\ PxIdle
    /\ TmIdle
    /\ BsIdle(FreshDb, TRUE)

SpecTelemetry == TelemetryInit /\ [][TmNext]_vars

BootstrapInit ==
    /\ LifeInit
    /\ rsConfigured = FALSE
    /\ rsUrl = Null
    /\ envRuntime = Undefined
    /\ PxIdle
    /\ TmIdle
    /\ \E db \in StartDbs, env \in BOOLEAN : BsIdle(db, env)

SpecBootstrap == BootstrapInit /\ [][BsNext]_vars

\* ------------------------------------------------------ lifecycle claims
IsPrefix(a, b) == Len(a) <= Len(b) /\ \A i \in 1..Len(a) : a[i] = b[i]

Range(seq) == {seq[i] : i \in 1..Len(seq)}

Resumed(r) == clPc[r] \notin {"idle", "awaitClose"}

\* The number of teardown actions a run at position pc has behind it.
Behind(pc) ==
    CASE pc = "socket" -> 1
      [] pc = "oauth" -> 2
      [] pc = "timer" -> 3
      [] pc \in {"exit", "done"} -> 4
      [] OTHER -> 0

\* C1, as stated: every run of cleanup() attempts all four teardown actions
\* in the fixed order before the process exits with status 0.  Checked where
\* the process has exited through cleanup().
C1_EveryRunAttemptsAll ==
    (exited /\ exitCause = "cleanup") =>
        /\ exitCode = 0
        /\ \A r \in Runs : clPc[r] # "idle" => clAttempts[r] = TeardownOrder

\* C1, amended: a run of cleanup() that resumes after its awaited
\* RealtimeManager.close() settles attempts all four teardown actions in the
\* fixed order whatever subset of them raises, and then exits with status 0;
\* a run still suspended on that await when the process exits has attempted
\* the close alone.
C1_TeardownIsolation ==
    \A r \in Runs :
        /\ IsPrefix(clAttempts[r], TeardownOrder)
        /\ clRaised[r] \subseteq Range(clAttempts[r])
        /\ clPc[r] = "idle" => clAttempts[r] = <<>>
        /\ clPc[r] = "awaitClose" => clAttempts[r] = <<"realtime">>
        /\ Resumed(r) =>
              /\ clPc[r] \in {"socket", "oauth", "timer", "exit", "done"}
              /\ Len(clAttempts[r]) = Behind(clPc[r])
        /\ clPc[r] = "done" =>
              /\ clAttempts[r] = TeardownOrder
              /\ exited /\ exitCode = 0 /\ exitCause = "cleanup"

\* C1 witness: a run in which all four actions raised has exited with 0.
C1_Witness ==
    \E r \in Runs :
        /\ clPc[r] = "done"
        /\ clRaised[r] = Range(TeardownOrder)
        /\ exited /\ exitCode = 0

\* C2: a failed startup step ends the process with status 1 and no later
\* startup step has been started.
C2_BootAbort ==
    failedStep # "none" =>
        /\ exited /\ exitCode = 1
        /\ started[Len(started)] = failedStep

InClaimedOrder(s) == s # "seed"

C4_AcceptingOnlyWhenReady ==
    /\ (listener = "bound" /\ ~exited) => \A h \in BootHandles : handle[h] = "Ready"
    /\ lastServed.st # "Uninitialized"

\* C5: whenever further signals arrive, no exception leaves cleanup() and no
\* teardown action that has completed is executed again.
C5_ShutdownIdempotent ==
    /\ ~unhandled
    /\ reRun = {}

\* C5 witness: the process exited through one run while another run, started
\* by a second signal, was still suspended on the awaited close.
C5_Witness ==
    /\ exited /\ exitCause = "cleanup"
    /\ signals >= 2
    /\ \E r \in Runs : clPc[r] = "awaitClose"

\* C6: close/destroy is never applied to an Uninitialized handle and
\* initialize never to a Closed one.
C6_HandleLifecycle ==
    \A rec \in applied :
        /\ ~(rec[2] = "close" /\ rec[3] = "Uninitialized")
        /\ ~(rec[2] = "init" /\ rec[3] = "Closed")

\* C7: no request is served by a handle that is Closed, and from the moment
\* a handle is Closed until the process exits the event loop takes no turn.
C7_NoServeAfterClosed ==
    /\ lastServed.st # "Closed"
    /\ ((\E h \in Handles : handle[h] = "Closed") /\ ~exited) => ~EventLoopFree

\* C7 witness: a request that uses the notification listener was served
\* during shutdown, the listener was then closed and the process exited.
C7_Witness ==
    /\ exited
    /\ handle["realtime"] = "Closed"
    /\ lastServed.uses = "realtime"
    /\ lastServed.shutting

\* C8: syncDeployment() is invoked once, at the end of the boot, the boot is
\* complete as soon as it is invoked whatever its outcome, and a failure of
\* it is logged and ends the process on no path.
C8_SyncDetached ==
    /\ syncCalls <= 1
    /\ (bootPc = "done") <=> (syncCalls = 1)
    /\ syncState # "notStarted" => bootPc = "done"
    /\ syncState = "failed" => syncLogged
    /\ exitCause # "syncFailure"
    /\ (exited /\ exitCode = 1) => exitCause \in {"bootFailure", "listenError"}

\* C8 witness: a request is served after the sync task failed.
C8_Witness ==
    /\ ~exited
    /\ bootPc = "done"
    /\ syncState = "failed"
    /\ lastServed.sync = "failed"

\* ---------------------------------------------------------- proxy claims
\* The local runtime URL: DENO_RUNTIME_URL when set to a non-empty value,
\* http://localhost:7133 otherwise.
LocalRuntimeUrl ==
    IF envRuntime.t = "string" /\ envRuntime.v # "" THEN envRuntime.v
    ELSE "http://localhost:7133"

ManagedChosen ==
    /\ pxSawConfigured
    /\ pxGotUrl.t = "string"
    /\ pxGotUrl.v # ""

\* C9: a call that resolves its target chooses once: the deployment URL if
\* and only if the resolver reported configured and returned a non-empty
\* URL, and the local runtime URL in every other case.
C9_TargetSelection ==
    /\ pxSelections <= 1
    /\ pxPc \in {"build", "fetch", "read", "relay"} => pxSelections = 1
    /\ pxSelections = 1 =>
          /\ pxBase.t = "string"
          /\ pxBase.v = IF ManagedChosen THEN pxGotUrl.v ELSE LocalRuntimeUrl

\* C9 witness: configured, but the resolver returned an empty URL, and the
\* default local runtime was chosen.
C9_Witness ==
    /\ pxSelections = 1
    /\ pxSawConfigured
    /\ pxGotUrl = Str("")
    /\ pxBase = Str("http://localhost:7133")

\* C10: an error raised at any point of the handler is answered with 502
\* GATEWAY_ERROR carrying the error's text, and no exception leaves the
\* handler.
C10_GatewayError ==
    /\ ~pxEscaped
    /\ pxErrAt # "none" =>
          /\ pxPc = "done"
          /\ Len(pxResponses) >= 1
          /\ LET r == pxResponses[Len(pxResponses)]
             IN  /\ r.status = 502
                 /\ r.error = "GATEWAY_ERROR"
                 /\ r.message = "Failed to reach edge function runtime"
                 /\ r.details = pxError.msg

\* C10 witness: the target could not be resolved and the call was answered.
C10_Witness ==
    /\ pxErrAt = "awaitUrl"
    /\ pxPc = "done"
    /\ Len(pxResponses) = 1

\* C11: the target is resolved afresh on every call: the resolution step
\* reads the resolver's configured flag as it is at that step, the step that
\* chooses reads the resolver's URL as it is at that step (whatever an
\* earlier call chose), and the upstream call goes to the target chosen.
C11_FreshResolution ==
    [][/\ (pxPc = "resolve" /\ pxPc' \in {"awaitUrl", "build"}) =>
              pxSawConfigured' = rsConfigured
       /\ pxSelections' = pxSelections + 1 =>
              pxBase' = IF pxPc = "awaitUrl" /\ rsUrl.t = "string" /\ rsUrl.v # ""
                        THEN rsUrl
                        ELSE Str(LocalRuntimeUrl)
       /\ (pxPc = "build" /\ pxPc' = "fetch") =>
              pxUpstream'.base = pxBase.v]_vars

\* C11 witness: the resolver changed between two calls, and the second call
\* is sent to another target than the first.
C11_Witness ==
    /\ pxCalls = 2
    /\ pxPrevBase.t = "string"
    /\ pxUpstream.sent
    /\ pxUpstream.base # pxPrevBase.v

\* The JSON text of the parsed body of a request with content type c.
ExpectedJson(c) ==
    CASE c = "application/json" -> "{\"a\":1}"
      [] c = "application/x-www-form-urlencoded" -> "{\"a\":\"1\"}"
      [] OTHER -> "{}"

\* C12: an upstream call for a GET or HEAD request carries no body; for
\* every other method it carries the JSON text of the parsed request body,
\* whatever the content type of the request was.
C12_UpstreamBody ==
    pxUpstream.sent =>
        IF pxReq.method \in {"GET", "HEAD"}
        THEN pxUpstream.body = Undefined
        ELSE pxUpstream.body = Str(ExpectedJson(pxReq.ctype))

\* C12 witness: a text/plain POST went upstream with the body "{}".
C12_Witness ==
    /\ pxUpstream.sent
    /\ pxReq.method = "POST"
    /\ pxReq.ctype = "text/plain"
    /\ pxUpstream.body = Str("{}")

\* C13: a relayed response has the upstream status and body; its headers
\* are the upstream headers without transfer-encoding, content-length,
\* connection and content-encoding, with access-control-allow-origin
\* replaced by "*".
C13_Relay ==
    \A i \in 1..Len(pxResponses) :
        pxResponses[i].relayed =>
            /\ pxResponses[i].status = pxUpResp.status
            /\ pxResponses[i].body = pxUpResp.body
            /\ pxResponses[i].headers =
                  {h \in pxUpResp.headers :
                       h[1] \notin {"transfer-encoding", "content-length", "connection",
                                    "content-encoding", "access-control-allow-origin"}}
                      \cup {<<"access-control-allow-origin", "*">>}

\* C13 witness: an upstream response with a content-encoding header was
\* relayed.
C13_Witness ==
    /\ Len(pxResponses) = 1
    /\ pxResponses[1].relayed
    /\ \E h \in pxUpResp.headers : h[1] = "content-encoding"

\* C14: the upstream request goes to <selected base URL>/<slug> followed by
\* the incoming query string, and its headers are the single-string
\* incoming headers with host replaced by the host of the selected base.
C14_UpstreamAddress ==
    pxUpstream.sent =>
        /\ pxUpstream.url = pxBase.v \o "/" \o Join(pxReq.slug) \o Join(pxReq.query)
        /\ pxUpstream.headers =
              {<<h[1], h[2].v>> : h \in {g \in pxReq.headers :
                                             g[2].t = "string" /\ g[1] # "host"}}
                  \cup {<<"host", ParseBase(pxBase.v).host>>}

\* C15: a request that went through the logging middleware and whose
\* response completed has exactly one log record, written after the response
\* was flushed, unless its path belongs to the log-retrieval route, and then
\* it has none.
C15_OneRecordAfterFinish ==
    /\ tmLog # <<>> => tmFinished
    /\ (tmWrapped /\ tmPc = "done") =>
           Len(tmLog) = IF IsLogRoute(tmReq.path) THEN 0 ELSE 1

\* C16: a response whose payload refers to itself, sent through res.send or
\* res.json, raises nothing out of the override, is not turned into an error
\* response, and is logged with size 0.
C16_CircularTolerated ==
    (tmTop # <<>> /\ tmTop[1][2] = VCircular) =>
        /\ ~tmThrown
        /\ tmStatus # 500
        /\ tmLog # <<>> => tmLog[1].size = 0

\* The number of bytes of the payload of an emission call.
ExpectedBytes(fn, data) ==
    CASE data = PText -> IF fn = "send" THEN 4 ELSE 6
      [] data = PBytes -> 5
      [] data = PTrue -> 4
      [] data = PNumber -> 3
      [] data = PObject -> 10
      [] data = ErrorBody -> 15
      [] data = VNull -> IF fn = "send" THEN 0 ELSE 4
      [] OTHER -> 0

C18_AttachAfterBound ==
    \A rec \in applied :
        (rec[1] = "socket" /\ rec[2] = "init") => rec[4] = "bound"

\* The run found public._migrations and no system.migrations.
StartedWithOldOnly == OldTable \in bsStartDb.tables /\ NewTable \notin bsStartDb.tables

\* C19: after a successful run the schema system exists, and the tracking
\* table was moved to system.migrations if the run found public._migrations
\* and no system.migrations, and nothing was changed about the tables
\* otherwise (system.migrations exists already, or a fresh install).
C19_StartingStates ==
    (bsPc = "done" /\ bsExitCode = 0) =>
        /\ bsDb.schema
        /\ bsDb.tables = IF StartedWithOldOnly
                         THEN (bsStartDb.tables \ {OldTable}) \cup {NewTable}
                         ELSE bsStartDb.tables

\* C20: the database never holds system._migrations, and a run whose move
\* failed at SET SCHEMA, RENAME or COMMIT ends with the table still in
\* public._migrations or fully in system.migrations, reports the error of
\* the statement that failed, and leaves exit code 1.
C20_AtomicMove ==
    /\ MovedTable \notin bsDb.tables
    /\ (bsPc = "done" /\ bsMoveError # "none") =>
           /\ bsDb.tables \in {bsStartDb.tables,
                               (bsStartDb.tables \ {OldTable}) \cup {NewTable}}
           /\ bsMoveError \in bsReported
           /\ bsExitCode = 1

\* C21: once a run has succeeded, the tracking table, the schema system and
\* the roles stay as that run left them through every later run, and no
\* later run enters the table move.
C21_SecondRunNoOp ==
    bsAfterOk.seen =>
        /\ bsDb = bsAfterOk.db
        /\ ~bsMoveTried
        /\ bsPc \notin {"createSchema", "begin", "setSchema", "rename", "commit", "rollback"}

\* C21 witness: a run succeeded and left system.migrations, and a second
\* run has run to its end without a failure.
C21_Witness ==
    /\ bsAfterOk.seen
    /\ bsRuns = 2
    /\ bsPc = "done"
    /\ bsExitCode = 0
    /\ bsDb.tables = {NewTable}

\* The run checked a client out of the pool.
CheckedOut == bsPc \notin {"idle", "exited", "connect"} /\ bsRaised # "connect"

\* A step of the run failed.
RunFailed == bsRaised # "none" \/ bsMoveError # "none" \/ "poolEnd" \in bsReported

\* C22: a run that created a pool ends it once, after releasing the client
\* once if one was checked out; a finished run has exit code 1 if a step
\* failed and 0 if none did; a run without DATABASE_URL exits with 1 and has
\* no pool to end.
C22_PoolClientExit ==
    /\ bsPoolEnds <= 1
    /\ bsReleases <= 1
    /\ bsPoolEnds = 1 => bsReleases = IF CheckedOut THEN 1 ELSE 0
    /\ bsReleases = 1 => CheckedOut
    /\ bsPc = "done" =>
           /\ bsPoolEnds = 1
           /\ bsExitCode = IF RunFailed THEN 1 ELSE 0
    /\ bsPc = "exited" => (bsExitCode = 1 /\ bsPoolEnds = 0 /\ bsReleases = 0)

\* C22 witness: the ROLLBACK failed, the client was released, the pool was
\* ended and the exit code is 1.
C22_Witness ==
    /\ bsPc = "done"
    /\ bsRaised = "rollback"
    /\ bsReleases = 1
    /\ bsPoolEnds = 1
    /\ bsExitCode = 1

\* C23: a call of functionProxyHandler sends at most one response, and a
\* call that has returned has sent exactly one: the relayed upstream
\* response if nothing was raised, the 502 error response if something was.
C23_ExactlyOneResponse ==
    /\ Len(pxResponses) <= 1
    /\ pxPc = "done" =>
           /\ Len(pxResponses) = 1
           /\ pxResponses[1].relayed = (pxErrAt = "none")
           /\ ~pxResponses[1].relayed => pxResponses[1].status = 502

\* C23 witness: the relay of the upstream response raised, and the call
\* answered with the 502 response alone.
C23_Witness ==
    /\ pxPc = "done"
    /\ pxErrAt = "relay"
    /\ Len(pxResponses) = 1
    /\ pxResponses[1].status = 502

====
